---- MODULE Spec2Model ----
(***************************************************************************)
(* Miniflux BBC de-duplication scripts.                                    *)
(*                                                                         *)
(* Five scripts read the unread entries of one or two feeds, decide which  *)
(* entries are duplicates and mark them "read" with one bulk update:       *)
(*   "fuzzy"      scripts/dedupe_bbc_sport.py   (rapidfuzz, feeds 481,482) *)
(*   "sport"      dedupe_bbc_sport.py           (exact, feed 621)          *)
(*   "tech"       dedupe_bbc_tech.py            (exact, feed 508)          *)
(*   "crossfeeds" dedupe_bbc_crossfeeds.py      (exact, feeds 482,621)     *)
(*   "recent"     dedupe_bbc_recent_updates.py  (24h window, feeds 482,621)*)
(*                                                                         *)
(* A title is a sequence of one-character strings.  A published_at text is *)
(* a pair <<local, off>>: the local date-time and the UTC offset of an     *)
(* ISO-8601 string, both in seconds.                                       *)
(***************************************************************************)
EXTENDS Integers, Sequences, FiniteSets, TLC

(***************************************************************************)
(* Bounds of the model.                                                    *)
(***************************************************************************)
NumEntries == 3

(***************************************************************************)
(* Characters and the regular-expression classes the scripts use.          *)
(***************************************************************************)
Chars == {" ", "!", "B", "a", "b", "c"}

\* Code point order of the characters (what sorted() compares).
Code(ch) ==
    CASE ch = " " -> 32
      [] ch = "!" -> 33
      [] ch = "B" -> 66
      [] ch = "a" -> 97
      [] ch = "b" -> 98
      [] ch = "c" -> 99

\* str.lower() on one character.
LowerChar(ch) == IF ch = "B" THEN "b" ELSE ch

\* \s of the regular expressions.
IsSpace(ch) == ch = " "

\* \w of the regular expressions.
IsWordChar(ch) == ch \in {"B", "a", "b", "c"}

\* str.lower()
Lower(t) == [i \in 1..Len(t) |-> LowerChar(t[i])]

\* re.sub(r"[^\w\s]", "", title)
RemovePunct(t) == SelectSeq(t, LAMBDA ch : IsWordChar(ch) \/ IsSpace(ch))

\* re.sub(r"[^\w\s]", " ", title)
PunctToSpace(t) ==
    [i \in 1..Len(t) |-> IF IsWordChar(t[i]) \/ IsSpace(t[i]) THEN t[i] ELSE " "]

\* re.sub(r"\s+", " ", title): a whitespace character that follows another
\* one is dropped.
RECURSIVE CollapseFrom(_, _)
CollapseFrom(t, i) ==
    IF i > Len(t) THEN <<>>
    ELSE IF IsSpace(t[i]) /\ i > 1 /\ IsSpace(t[i - 1])
         THEN CollapseFrom(t, i + 1)
         ELSE <<t[i]>> \o CollapseFrom(t, i + 1)

CollapseWs(t) == CollapseFrom(t, 1)

RECURSIVE LStrip(_)
LStrip(t) ==
    IF t # <<>> /\ IsSpace(Head(t)) THEN LStrip(Tail(t)) ELSE t

RECURSIVE RStrip(_)
RStrip(t) ==
    IF t # <<>> /\ IsSpace(t[Len(t)]) THEN RStrip(SubSeq(t, 1, Len(t) - 1)) ELSE t

\* str.strip()
Strip(t) == RStrip(LStrip(t))

\* str.split(): the maximal runs of non-whitespace characters, in order.
RECURSIVE SplitFrom(_, _, _)
SplitFrom(t, i, word) ==
    IF i > Len(t) THEN (IF word = <<>> THEN <<>> ELSE <<word>>)
    ELSE IF IsSpace(t[i])
         THEN (IF word = <<>> THEN <<>> ELSE <<word>>) \o SplitFrom(t, i + 1, <<>>)
         ELSE SplitFrom(t, i + 1, Append(word, t[i]))

Split(t) == SplitFrom(t, 1, <<>>)

\* Python's < on two strings: lexicographic by code point.
RECURSIVE StrLess(_, _)
StrLess(a, b) ==
    IF b = <<>> THEN FALSE
    ELSE IF a = <<>> THEN TRUE
    ELSE IF Code(Head(a)) # Code(Head(b)) THEN Code(Head(a)) < Code(Head(b))
    ELSE StrLess(Tail(a), Tail(b))

\* sorted() on a list of words (insertion sort; equal words are equal texts).
RECURSIVE InsertWord(_, _)
InsertWord(w, ws) ==
    IF ws = <<>> THEN <<w>>
    ELSE IF StrLess(w, Head(ws)) THEN <<w>> \o ws
    ELSE <<Head(ws)>> \o InsertWord(w, Tail(ws))

RECURSIVE SortWords(_)
SortWords(ws) ==
    IF ws = <<>> THEN <<>> ELSE InsertWord(ws[Len(ws)], SortWords(SubSeq(ws, 1, Len(ws) - 1)))

\* " ".join(words)
RECURSIVE JoinWords(_)
JoinWords(ws) ==
    IF ws = <<>> THEN <<>>
    ELSE IF Len(ws) = 1 THEN Head(ws)
    ELSE Head(ws) \o <<" ">> \o JoinWords(Tail(ws))

\* The nltk English stop words that can be written with the characters of
\* the model.
STOP_WORDS == {<<"a">>}

(***************************************************************************)
(* The title normalisers of the scripts.                                   *)
(***************************************************************************)
\* dedupe_bbc_tech.py and dedupe_bbc_crossfeeds.py
normalise_title(title) == Strip(CollapseWs(RemovePunct(Lower(title))))

\* dedupe_bbc_sport.py: punctuation is kept.
normalise_title_sport(title) == Strip(CollapseWs(Lower(title)))

\* scripts/dedupe_bbc_sport.py
\* [w.lower() for w in words if w.lower() not in STOP_WORDS]
RECURSIVE KeptWords(_)
KeptWords(words) ==
    IF words = <<>> THEN <<>>
    ELSE IF Lower(Head(words)) \in STOP_WORDS THEN KeptWords(Tail(words))
    ELSE <<Lower(Head(words))>> \o KeptWords(Tail(words))

clean_title(title) == JoinWords(SortWords(KeptWords(Split(PunctToSpace(title)))))

(***************************************************************************)
(* Configuration constants of the scripts.                                 *)
(***************************************************************************)
FEED_FOOTBALL == 482
FEED_SPORT == 621
KEEP_FEED_ID == FEED_FOOTBALL
DEDUP_FEED_IDS == <<FEED_FOOTBALL, FEED_SPORT>>
FUZZY_FEED_IDS == <<481, 482>>
RECENT_FEED_IDS == <<482, 621>>
SPORT_FEED_ID == 621
TECH_FEED_ID == 508
SENSITIVITY == 88
WINDOW_HOURS == 24

Scripts == {"fuzzy", "sport", "tech", "crossfeeds", "recent"}

(***************************************************************************)
(* State.                                                                  *)
(*   script        the script this installation runs                       *)
(*   DRY_RUN       its DRY_RUN flag (the fuzzy script has none)            *)
(*   ratio         fuzz.token_sort_ratio, as a table over cleaned titles   *)
(*   server        the entries held by Miniflux, by entry id               *)
(*   now           datetime.now() of the last run ("recent" only)          *)
(*   entries       the entries the last run fetched and processed          *)
(*   marked        the entries the last run decided to mark as read        *)
(*   fetch_error   whether a fetch of the last run raised an exception     *)
(*   update_calls  calls of client.update_entries made by the last run     *)
(*   update_error  whether such a call raised an exception                 *)
(*   outcome       how the last run ended                                  *)
(***************************************************************************)
VARIABLES script, DRY_RUN, ratio, server, now, entries, marked,
          fetch_error, update_calls, update_error, outcome

vars == <<script, DRY_RUN, ratio, server, now, entries, marked,
          fetch_error, update_calls, update_error, outcome>>

Slots == 1..NumEntries

(***************************************************************************)
(* Input domains.  An entry is the JSON object Miniflux returns; "keys" is *)
(* the set of keys the object carries among id, title and published_at.    *)
(***************************************************************************)
AllKeys == {"id", "title", "published_at"}

TitlesOf(s) ==
    CASE s = "fuzzy" -> {<<"c">>, <<"c", " ", "b">>, <<"a", " ", "B", "!">>}
      [] s = "sport" -> {<<>>, <<"b">>, <<"B", " ">>, <<"b", "!">>}
      [] s = "recent" -> {<<" ">>, <<"b">>, <<" ", "b">>, <<"B">>}
      [] OTHER -> {<<>>, <<"!">>, <<"b">>, <<"B", "!">>}

FeedsOf(s) ==
    CASE s = "fuzzy" -> {481, 482}
      [] s = "sport" -> {SPORT_FEED_ID}
      [] s = "tech" -> {TECH_FEED_ID}
      [] s = "crossfeeds" -> {FEED_FOOTBALL, FEED_SPORT}
      [] s = "recent" -> {FEED_FOOTBALL}

\* published_at texts: <<local seconds, offset seconds>>.  02:00:00+00:00 and
\* 02:30:00+01:00: the second is the earlier instant and the greater text.
PubsOf(s) ==
    CASE s \in {"sport", "tech"} -> {<<7200, 0>>, <<9000, 3600>>}
      [] s = "recent" -> {<<3600, 0>>, <<90001, 0>>}
      [] OTHER -> {<<3600, 0>>}

StatusesOf(s) == IF s = "recent" THEN {"unread", "read"} ELSE {"unread"}

\* The keys a script reads, hence the keys whose absence it can notice.
KeysReadBy(s) ==
    CASE s \in {"fuzzy", "crossfeeds"} -> {"id", "title"}
      [] s = "recent" -> {"id", "published_at"}
      [] OTHER -> AllKeys

NowsOf(s) == IF s = "recent" THEN {90000, 90001} ELSE {0}

\* The scores the library can return for two different non-empty texts.
Scores == {50, 90, 95}

Thresholds == {SENSITIVITY, 93}

CleanedKeys == {clean_title(t) : t \in TitlesOf("fuzzy")}

\* The ratio is symmetric, and 100 on equal texts: one score for every
\* unordered pair of different cleaned titles.
RatioTables ==
    {[p \in CleanedKeys \X CleanedKeys |->
         IF p[1] = p[2] THEN 100 ELSE f[{p[1], p[2]}]] :
     f \in [{{a, b} : a, b \in CleanedKeys} \ {{a} : a \in CleanedKeys} -> Scores]}

NoRatio == [p \in {} |-> 0]

\* Only the read entries of "recent" have their published_at read; their
\* titles are "b" and " ", to be compared with every title of the unread.
EntryShapes(s) ==
    {sh \in [title : TitlesOf(s), feed_id : FeedsOf(s), published_at : PubsOf(s),
             status : StatusesOf(s)] :
        s = "recent" =>
            /\ sh.status = "unread" => sh.published_at = <<3600, 0>>
            /\ sh.status = "read" => sh.title \in {<<"b">>, <<" ">>}}

\* NoDefect, or the entry and the key it lacks.
NoDefect == <<0, "none">>

Defects(s) == Slots \X KeysReadBy(s)

MakeServer(shape, defect) ==
    [i \in Slots |->
        [id |-> i,
         keys |-> IF defect[1] = i THEN AllKeys \ {defect[2]} ELSE AllKeys,
         title |-> IF defect = <<i, "title">> THEN <<>> ELSE shape[i].title,
         feed_id |-> shape[i].feed_id,
         published_at |-> shape[i].published_at,
         status |-> shape[i].status]]

InitWith(s, defects) ==
    /\ script = s
    /\ DRY_RUN \in (IF s = "fuzzy" THEN {FALSE} ELSE BOOLEAN)
    /\ ratio \in (IF s = "fuzzy" THEN RatioTables ELSE {NoRatio})
    /\ \E shape \in [Slots -> EntryShapes(s)], defect \in defects :
           server = MakeServer(shape, defect)
    /\ now = 0
    /\ entries = <<>>
    /\ marked = <<>>
    /\ fetch_error = FALSE
    /\ update_calls = 0
    /\ update_error = FALSE
    /\ outcome = "none"

\* Every entry carries every key.
InitFor(s) == InitWith(s, {NoDefect})

\* One entry lacks one key.
InitDefective(s) == InitWith(s, Defects(s))

Init == \E s \in Scripts : InitFor(s)

(***************************************************************************)
(* Sequences of entries.  An entry of a batch is named by its id.          *)
(***************************************************************************)
Range(seq) == {seq[i] : i \in 1..Len(seq)}

RECURSIVE Concat(_)
Concat(seqs) == IF seqs = <<>> THEN <<>> ELSE Head(seqs) \o Concat(Tail(seqs))

\* Order of two sort keys <<major, minor>>.
KeyLess(k1, k2) == k1[1] < k2[1] \/ (k1[1] = k2[1] /\ k1[2] < k2[2])

\* list.sort(key=...): stable, ascending.  key is a function on the entries.
RECURSIVE InsertStable(_, _, _)
InsertStable(x, sorted, key) ==
    IF sorted = <<>> THEN <<x>>
    ELSE IF KeyLess(key[x], key[Head(sorted)]) THEN <<x>> \o sorted
    ELSE <<Head(sorted)>> \o InsertStable(x, Tail(sorted), key)

RECURSIVE StableSort(_, _)
StableSort(seq, key) ==
    IF seq = <<>> THEN <<>>
    ELSE InsertStable(seq[Len(seq)], StableSort(SubSeq(seq, 1, Len(seq) - 1), key), key)

\* The keys of a dict filled by the loop "groups[key[e]].append(e)", in
\* insertion order.
AddKey(before, k) == IF k \in Range(before) THEN before ELSE Append(before, k)

RECURSIVE FirstSeenKeys(_, _)
FirstSeenKeys(seq, key) ==
    IF seq = <<>> THEN <<>>
    ELSE AddKey(FirstSeenKeys(SubSeq(seq, 1, Len(seq) - 1), key), key[seq[Len(seq)]])

\* The values of that dict, in insertion order.
GroupBy(seq, key) ==
    LET ks == FirstSeenKeys(seq, key)
    IN  [g \in 1..Len(ks) |-> SelectSeq(seq, LAMBDA e : key[e] = ks[g])]

(***************************************************************************)
(* Time stamps.                                                            *)
(***************************************************************************)
\* datetime.fromisoformat(ts.replace("Z", "+00:00")): the instant, in seconds.
parse_ts(ts) == ts[1] - ts[2]

(***************************************************************************)
(* The Miniflux client.                                                    *)
(***************************************************************************)
\* The entries of a feed with a status, ordered by a column ("id" or
\* "published_at") ascending or descending, ties by id in the same direction.
RECURSIVE Ordered(_, _, _, _)
Ordered(srv, S, order, direction) ==
    IF S = {} THEN <<>>
    ELSE LET k(i) == IF order = "id" THEN <<i, i>> ELSE <<parse_ts(srv[i].published_at), i>>
             first == CHOOSE x \in S : \A y \in S \ {x} :
                          IF direction = "asc" THEN KeyLess(k(x), k(y))
                                               ELSE KeyLess(k(y), k(x))
         IN  <<first>> \o Ordered(srv, S \ {first}, order, direction)

get_entries(srv, feed_id, status, order, direction) ==
    Ordered(srv, {i \in Slots : srv[i].feed_id = feed_id /\ srv[i].status = status},
            order, direction)

\* client.update_entries(ids, status="read"), when it succeeds.
update_entries(srv, ids) ==
    [i \in Slots |-> IF i \in ids THEN [srv[i] EXCEPT !.status = "read"] ELSE srv[i]]

Has(srv, e, k) == k \in srv[e].keys

(***************************************************************************)
(* What each script decides to mark, given the batch it fetched.  A plan   *)
(* is [raised, list]: whether an exception ended the computation, and the  *)
(* entries to mark as read, in the order the script collects them.         *)
(***************************************************************************)
Plan(raised, list) == [raised |-> raised, list |-> IF raised THEN <<>> ELSE list]

\* Faulty variant of Losers: the slice starts at 0, the whole group.
LosersWholeGroup(sorted) == sorted

\* Faulty variant of Losers: the slice [1:2], the first duplicate only.
LosersFirstOnly(sorted) == <<sorted[2]>>

\* group[1:] / items[1:] of a sorted group: every member but the first.
Losers(sorted) == Tail(sorted)

\* dedupe_bbc_tech.py.  Entries with a missing or empty title are skipped;
\* a group is sorted by the published_at text (missing counts as "", which
\* sorts first), by the local date-time and then by the offset suffix.
TechSortKey(srv) ==
    [e \in Slots |-> IF Has(srv, e, "published_at") THEN srv[e].published_at
                     ELSE <<-1, 0>>]

\* The entries that pass "if not title: continue".
Titled(srv, ents) ==
    SelectSeq(ents, LAMBDA e : Has(srv, e, "title") /\ srv[e].title # <<>>)

TechGroups(srv, ents) ==
    GroupBy(Titled(srv, ents), [e \in Slots |-> normalise_title(srv[e].title)])

TechDuplicates(srv, grouped) ==
    Concat([g \in 1..Len(grouped) |->
               IF Len(grouped[g]) > 1
               THEN Losers(StableSort(grouped[g], TechSortKey(srv)))
               ELSE <<>>])

TechPlan(srv, ents) == Plan(FALSE, TechDuplicates(srv, TechGroups(srv, ents)))

\* dedupe_bbc_sport.py.  entry["title"], e["published_at"] and dup["id"]
\* raise KeyError on an entry that lacks the key.
SportSortKey(srv) == [e \in Slots |-> <<parse_ts(srv[e].published_at), 0>>]

SportGroups(srv, ents) ==
    GroupBy(ents, [e \in Slots |-> normalise_title_sport(srv[e].title)])

SportPlan(srv, ents) ==
    LET groups == SportGroups(srv, ents)
        big == SelectSeq(groups, LAMBDA items : Len(items) >= 2)
        sorted == [g \in 1..Len(big) |-> StableSort(big[g], SportSortKey(srv))]
        to_update == Concat([g \in 1..Len(big) |-> Losers(sorted[g])])
    IN  IF \E e \in Range(ents) : ~Has(srv, e, "title") THEN Plan(TRUE, <<>>)
        ELSE IF \E g \in 1..Len(big) : \E e \in Range(big[g]) :
                    ~Has(srv, e, "published_at") THEN Plan(TRUE, <<>>)
        ELSE IF \E e \in Range(to_update) : ~Has(srv, e, "id") THEN Plan(TRUE, <<>>)
        ELSE Plan(FALSE, to_update)

\* dedupe_bbc_crossfeeds.py.  The feed kept in a group found in more than
\* one feed.
\* feeds_present of a group.
FeedsPresent(srv, items) == {srv[e].feed_id : e \in Range(items)}

\* Faulty variant of keep_feed: the feed of the last entry of the group.
keep_feed_last(srv, items) == srv[items[Len(items)]].feed_id

keep_feed(srv, items) ==
    IF KEEP_FEED_ID \in FeedsPresent(srv, items)
    THEN KEEP_FEED_ID
    ELSE srv[items[1]].feed_id

CrossfeedsGroups(srv, ents) ==
    GroupBy(Titled(srv, ents), [e \in Slots |-> normalise_title(srv[e].title)])

CrossfeedsPlan(srv, ents) ==
    LET by_title == CrossfeedsGroups(srv, ents)
        losers(items) ==
            IF Cardinality(FeedsPresent(srv, items)) <= 1 THEN <<>>
            ELSE SelectSeq(items, LAMBDA e : srv[e].feed_id # keep_feed(srv, items))
    IN  Plan(FALSE, Concat([g \in 1..Len(by_title) |-> losers(by_title[g])]))

\* dedupe_bbc_recent_updates.py.
\* Faulty variant of within_window: < instead of <=.
within_window_strict(ts, t) == t - parse_ts(ts) < WINDOW_HOURS * 3600

within_window(ts, t) == t - parse_ts(ts) <= WINDOW_HOURS * 3600

\* (e.get("title") or "").strip()
StrippedTitle(srv, e) == IF Has(srv, e, "title") THEN Strip(srv[e].title) ELSE <<>>

seen_titles(srv, reads, t) ==
    {StrippedTitle(srv, e) :
        e \in {r \in Range(reads) :
                  /\ Has(srv, r, "published_at")
                  /\ within_window(srv[r].published_at, t)
                  /\ StrippedTitle(srv, r) # <<>>}}

Flagged(srv, ents, seen) ==
    SelectSeq(ents, LAMBDA e : StrippedTitle(srv, e) # <<>> /\ StrippedTitle(srv, e) \in seen)

RecentPlan(srv, reads, ents, t) ==
    Plan(FALSE, Flagged(srv, ents, seen_titles(srv, reads, t)))

\* scripts/dedupe_bbc_sport.py, find_cross_feed_duplicates: the state of
\* the loop after the first n entries.  entry["title"] and entry["id"]
\* raise KeyError on an entry that lacks the key.
\* Faulty variant of IsMatch: <= instead of >=.
IsMatchInverted(rt, cleaned, t, sensitivity) == rt[<<cleaned, t>>] <= sensitivity

IsMatch(rt, cleaned, t, sensitivity) == rt[<<cleaned, t>>] >= sensitivity

\* One iteration of the loop, from the state st = [dupe_ids, seen, raised];
\* seen is seen_titles, a list of (cleaned title, entry id).
FuzzyMatch(st, entry, cleaned, sensitivity, rt) ==
    IF \E i \in 1..Len(st.seen) : IsMatch(rt, cleaned, st.seen[i].cleaned, sensitivity)
    THEN [st EXCEPT !.dupe_ids = Append(@, entry)]
    ELSE [st EXCEPT !.seen = Append(@, [cleaned |-> cleaned, id |-> entry])]

FuzzyStep(st, srv, entry, sensitivity, rt) ==
    IF st.raised \/ ~Has(srv, entry, "title") \/ ~Has(srv, entry, "id")
    THEN [st EXCEPT !.raised = TRUE]
    ELSE FuzzyMatch(st, entry, clean_title(srv[entry].title), sensitivity, rt)

RECURSIVE FuzzyScan(_, _, _, _, _)
FuzzyScan(srv, ents, n, sensitivity, rt) ==
    IF n = 0 THEN [dupe_ids |-> <<>>, seen |-> <<>>, raised |-> FALSE]
    ELSE FuzzyStep(FuzzyScan(srv, ents, n - 1, sensitivity, rt), srv, ents[n],
                   sensitivity, rt)

FuzzyResult(st) == Plan(st.raised, st.dupe_ids)

FuzzyPlan(srv, ents, sensitivity, rt) ==
    FuzzyResult(FuzzyScan(srv, ents, Len(ents), sensitivity, rt))

\* The value next(...) returns when no seen title is similar.
None == [cleaned |-> <<>>, id |-> 0]

\* Faulty variant of match: the last similar seen title, not the first.
match_last(seen, cleaned, sensitivity, rt) ==
    LET hits == {i \in 1..Len(seen) : IsMatch(rt, cleaned, seen[i].cleaned, sensitivity)}
    IN  IF hits = {} THEN None ELSE seen[CHOOSE i \in hits : \A j \in hits : j <= i]

\* match = next(((t, fid) for ... in seen_titles if ratio >= sensitivity),
\* None): the first similar element of seen_titles, named here by its
\* cleaned title t and its entry id.
match(seen, cleaned, sensitivity, rt) ==
    LET hits == {i \in 1..Len(seen) : IsMatch(rt, cleaned, seen[i].cleaned, sensitivity)}
    IN  IF hits = {} THEN None ELSE seen[CHOOSE i \in hits : \A j \in hits : i <= j]

\* The ids handed to client.update_entries.
IdsOf(srv, list) == {e \in Range(list) : Has(srv, e, "id")}

(***************************************************************************)
(* The batches the scripts fetch.                                          *)
(***************************************************************************)
FetchFeeds(srv, feeds, status, order, direction) ==
    Concat([f \in 1..Len(feeds) |-> get_entries(srv, feeds[f], status, order, direction)])

UnreadOf(s, srv) ==
    CASE s = "fuzzy" -> FetchFeeds(srv, FUZZY_FEED_IDS, "unread", "id", "asc")
      [] s = "sport" -> get_entries(srv, SPORT_FEED_ID, "unread", "published_at", "asc")
      [] s = "tech" -> get_entries(srv, TECH_FEED_ID, "unread", "published_at", "asc")
      [] s = "crossfeeds" -> FetchFeeds(srv, DEDUP_FEED_IDS, "unread", "published_at", "asc")
      [] s = "recent" -> FetchFeeds(srv, RECENT_FEED_IDS, "unread", "published_at", "desc")

ReadOf(srv) == FetchFeeds(srv, RECENT_FEED_IDS, "read", "published_at", "desc")

PlanOf(s, srv, t, rt) ==
    CASE s = "fuzzy" -> FuzzyPlan(srv, UnreadOf(s, srv), SENSITIVITY, rt)
      [] s = "sport" -> SportPlan(srv, UnreadOf(s, srv))
      [] s = "tech" -> TechPlan(srv, UnreadOf(s, srv))
      [] s = "crossfeeds" -> CrossfeedsPlan(srv, UnreadOf(s, srv))
      [] s = "recent" -> RecentPlan(srv, ReadOf(srv), UnreadOf(s, srv), t)

(***************************************************************************)
(* One run of a script.  A fetch and the update are calls to the Miniflux  *)
(* server: each either returns or raises an exception.                     *)
(***************************************************************************)
\* A fetch raised: nothing was computed and nothing is updated.
FetchFailed ==
    /\ entries' = <<>>
    /\ marked' = <<>>
    /\ update_calls' = 0
    /\ update_error' = FALSE
    /\ outcome' = "failed"
    /\ fetch_error' = TRUE
    /\ UNCHANGED <<script, DRY_RUN, ratio, server>>

Finish(ents, list, calls, err, out, srv) ==
    /\ entries' = ents
    /\ marked' = list
    /\ update_calls' = calls
    /\ update_error' = err
    /\ outcome' = out
    /\ server' = srv
    /\ fetch_error' = FALSE
    /\ UNCHANGED <<script, DRY_RUN, ratio>>

\* client.update_entries(ids, status="read") is called once: it marks the
\* entries and the run ends as after_ok, or it raises and the run ends as
\* after_error.
Update(ents, list, after_ok, after_error) ==
    \/ Finish(ents, list, 1, FALSE, after_ok, update_entries(server, IdsOf(server, list)))
    \/ Finish(ents, list, 1, TRUE, after_error, server)

\* scripts/dedupe_bbc_sport.py: an exception of update_entries is logged
\* and the script goes on to "Run completed".
FuzzyRun(ents, plan) ==
    \/ FetchFailed
    \/ IF plan.raised THEN Finish(ents, <<>>, 0, FALSE, "failed", server)
       ELSE IF plan.list = <<>> THEN Finish(ents, <<>>, 0, FALSE, "completed", server)
       ELSE Update(ents, plan.list, "completed", "completed")

RunFuzzy ==
    /\ script = "fuzzy"
    /\ now' = now
    /\ FuzzyRun(UnreadOf("fuzzy", server),
                FuzzyPlan(server, UnreadOf("fuzzy", server), SENSITIVITY, ratio))

\* dedupe_bbc_sport.py: a failed update ends the script with sys.exit(1).
SportRun(ents, plan) ==
    \/ FetchFailed
    \/ IF plan.raised THEN Finish(ents, <<>>, 0, FALSE, "failed", server)
       ELSE IF plan.list = <<>> THEN Finish(ents, <<>>, 0, FALSE, "completed", server)
       ELSE IF DRY_RUN THEN Finish(ents, plan.list, 0, FALSE, "completed", server)
       ELSE Update(ents, plan.list, "completed", "failed")

RunSport ==
    /\ script = "sport"
    /\ now' = now
    /\ SportRun(UnreadOf("sport", server), SportPlan(server, UnreadOf("sport", server)))

\* Faulty variant of TechRun: DRY_RUN is not consulted.
TechRunIgnoringDryRun(ents, plan) ==
    \/ FetchFailed
    \/ IF ents = <<>> \/ plan.list = <<>>
       THEN Finish(ents, <<>>, 0, FALSE, "completed", server)
       ELSE IF \E e \in Range(plan.list) : ~Has(server, e, "id")
            THEN Finish(ents, plan.list, 0, FALSE, "failed", server)
       ELSE Update(ents, plan.list, "completed", "failed")

\* dedupe_bbc_tech.py: [e["id"] for e in duplicates] raises KeyError on a
\* duplicate without an id, before the update; an exception leaves main().
TechRun(ents, plan) ==
    \/ FetchFailed
    \/ IF ents = <<>> \/ plan.list = <<>>
       THEN Finish(ents, <<>>, 0, FALSE, "completed", server)
       ELSE IF DRY_RUN THEN Finish(ents, plan.list, 0, FALSE, "completed", server)
       ELSE IF \E e \in Range(plan.list) : ~Has(server, e, "id")
            THEN Finish(ents, plan.list, 0, FALSE, "failed", server)
       ELSE Update(ents, plan.list, "completed", "failed")

RunTech ==
    /\ script = "tech"
    /\ now' = now
    /\ TechRun(UnreadOf("tech", server), TechPlan(server, UnreadOf("tech", server)))

\* dedupe_bbc_crossfeeds.py: entries without an id are left out of the ids.
CrossfeedsRun(ents, plan) ==
    \/ FetchFailed
    \/ IF plan.list = <<>> THEN Finish(ents, <<>>, 0, FALSE, "completed", server)
       ELSE IF DRY_RUN THEN Finish(ents, plan.list, 0, FALSE, "completed", server)
       ELSE IF IdsOf(server, plan.list) = {}
            THEN Finish(ents, plan.list, 0, FALSE, "completed", server)
       ELSE Update(ents, plan.list, "completed", "failed")

RunCrossfeeds ==
    /\ script = "crossfeeds"
    /\ now' = now
    /\ CrossfeedsRun(UnreadOf("crossfeeds", server),
                     CrossfeedsPlan(server, UnreadOf("crossfeeds", server)))

\* dedupe_bbc_recent_updates.py: the log lines written for the marked
\* entries read e["published_at"], which raises KeyError when it is absent.
LogOutcome(srv, list) ==
    IF \E e \in Range(list) : ~Has(srv, e, "published_at") THEN "failed" ELSE "completed"

RecentRun(seen, ents, plan) ==
    \/ FetchFailed
    \/ IF seen = {} THEN Finish(<<>>, <<>>, 0, FALSE, "completed", server)
       ELSE IF plan.list = <<>> THEN Finish(ents, <<>>, 0, FALSE, "completed", server)
       ELSE IF DRY_RUN
            THEN Finish(ents, plan.list, 0, FALSE, LogOutcome(server, plan.list), server)
       ELSE Update(ents, plan.list, LogOutcome(server, plan.list), "failed")

\* The clock does not run backwards from one run to the next.
RunRecent ==
    /\ script = "recent"
    /\ \E t \in {n \in NowsOf("recent") : n >= now} :
        /\ now' = t
        /\ RecentRun(seen_titles(server, ReadOf(server), t),
                     UnreadOf("recent", server),
                     RecentPlan(server, ReadOf(server), UnreadOf("recent", server), t))

Next == RunFuzzy \/ RunSport \/ RunTech \/ RunCrossfeeds \/ RunRecent

Spec == Init /\ [][Next]_vars

\* One installation per script.
SpecFuzzy == InitFor("fuzzy") /\ [][RunFuzzy]_vars
SpecSport == InitFor("sport") /\ [][RunSport]_vars
SpecTech == InitFor("tech") /\ [][RunTech]_vars
SpecCrossfeeds == InitFor("crossfeeds") /\ [][RunCrossfeeds]_vars
SpecRecent == InitFor("recent") /\ [][RunRecent]_vars

\* dedupe_bbc_sport.py on batches in which one entry lacks a key.
SpecSportDefective == InitDefective("sport") /\ [][RunSport]_vars

(***************************************************************************)
(* Properties.  They speak of the last run: entries is the batch it        *)
(* fetched, marked the list it decided to mark as read.  Titles, feeds     *)
(* and time stamps of the server's entries never change.                   *)
(***************************************************************************)
\* The last run fetched its batch and computed its list.
Planned == outcome # "none" /\ ~fetch_error

\* The comparison key a script derives from the title of an entry.
KeyOf(e) ==
    CASE script = "fuzzy" -> clean_title(server[e].title)
      [] script = "sport" -> normalise_title_sport(server[e].title)
      [] script = "recent" -> Strip(server[e].title)
      [] OTHER -> normalise_title(server[e].title)

\* The duplicate groups of the exact-match scripts: two members or more.
ExactGroups ==
    LET gs == CASE script = "sport" -> SportGroups(server, entries)
                [] script = "tech" -> TechGroups(server, entries)
                [] script = "crossfeeds" -> CrossfeedsGroups(server, entries)
                [] OTHER -> <<>>
    IN  {gs[g] : g \in {h \in 1..Len(gs) : Len(gs[h]) >= 2}}

\* Position of an entry in the batch.
PosIn(seq, e) == CHOOSE i \in 1..Len(seq) : seq[i] = e

\* The entries the script keeps unread on account of a group.
Keepers ==
    CASE script = "sport" ->
            {StableSort(g, SportSortKey(server))[1] : g \in ExactGroups}
      [] script = "tech" ->
            {StableSort(g, TechSortKey(server))[1] : g \in ExactGroups}
      [] script = "crossfeeds" ->
            UNION {{e \in Range(g) : server[e].feed_id = keep_feed(server, g)} :
                   g \in {h \in ExactGroups : Cardinality(FeedsPresent(server, h)) > 1}}
      [] script = "fuzzy" ->
            {r.id : r \in Range(FuzzyScan(server, entries, Len(entries),
                                          SENSITIVITY, ratio).seen)}
      [] OTHER -> {}

\* e was marked as a duplicate of k.
DuplicateOf(e, k) ==
    IF script = "fuzzy"
    THEN /\ PosIn(entries, k) < PosIn(entries, e)
         /\ ratio[<<KeyOf(e), KeyOf(k)>>] >= SENSITIVITY
    ELSE \E g \in ExactGroups : e \in Range(g) /\ k \in Range(g)

\* C1: the list a run marks holds no entry twice and no keeper of a
\* duplicate group: every marked duplicate has a keeper of its own group
\* that stays unread.
C1_NoDoubleCountingNoKeeper ==
    /\ \A i, j \in 1..Len(marked) : marked[i] = marked[j] => i = j
    /\ Planned /\ script # "recent" =>
         /\ Keepers \cap Range(marked) = {}
         /\ \A e \in Range(marked) :
                \E k \in Keepers \ Range(marked) : DuplicateOf(e, k)

\* C1 witness: a run marked two entries of a batch and kept a third.
C1_Witness ==
    /\ Planned
    /\ script # "recent"
    /\ Len(marked) = 2
    /\ Keepers # {}

\* The last run marked entries and its update was applied.
Applied == marked # <<>> /\ update_calls = 1 /\ ~update_error

\* C2: once a run of a de-duplicating script has marked its duplicates and
\* the update was applied, the next run marks nothing.
C2_PlanIdempotent ==
    [][(script # "recent" /\ Applied) => marked' = <<>>]_vars

\* C2 witness: an update was applied and two unread entries or more remain
\* for the next run to compare.
C2_Witness ==
    /\ script # "recent"
    /\ Applied
    /\ Cardinality({e \in Range(entries) : server[e].status = "unread"}) >= 2

\* Sort key of an entry by the instant it was published.
ByInstant == [e \in Slots |-> <<parse_ts(server[e].published_at), 0>>]

\* The members of a group that come from the kept feed.
KeepMembers(g) == SelectSeq(g, LAMBDA e : server[e].feed_id = KEEP_FEED_ID)

\* C3 as stated: in a group with members from the keep feed, exactly one
\* member is kept, the keep-feed member published first (ties by input
\* order), and every other member is marked.
C3_SingleKeeper ==
    (script = "crossfeeds" /\ Planned) =>
        \A g \in ExactGroups :
            KEEP_FEED_ID \in FeedsPresent(server, g) =>
                Range(marked) \cap Range(g) =
                    Range(g) \ {StableSort(KeepMembers(g), ByInstant)[1]}

\* C3 amended: in a group with members from the keep feed, every member
\* from the keep feed is kept and exactly the members from the other feeds
\* are marked (none when the whole group comes from the keep feed).
C3_KeepFeedAllKept ==
    (script = "crossfeeds" /\ Planned) =>
        \A g \in ExactGroups :
            KEEP_FEED_ID \in FeedsPresent(server, g) =>
                Range(marked) \cap Range(g) =
                    {e \in Range(g) : server[e].feed_id # KEEP_FEED_ID}

\* C3 witness: a group with two members from the keep feed lost a member.
C3_Witness ==
    /\ script = "crossfeeds"
    /\ Planned
    /\ \E g \in ExactGroups :
           /\ Len(KeepMembers(g)) >= 2
           /\ Range(marked) \cap Range(g) # {}

\* C4 as stated: without a keep feed, the keeper of every duplicate group is
\* the member published first (ties by input order) and all the others are
\* marked.
C4_KeepsEarliest ==
    (script \in {"tech", "sport"} /\ Planned) =>
        \A g \in ExactGroups :
            Range(marked) \cap Range(g) = Range(g) \ {StableSort(g, ByInstant)[1]}

\* The unread and the read entries the server holds.
UnreadSlots == {e \in Slots : server[e].status = "unread"}

ReadSlots == {e \in Slots : server[e].status = "read"}

\* C5 as stated: the index built at time t holds the normalised key of a
\* read entry iff the entry was published within [t - window, t] and the
\* key is not empty; an unread entry is flagged iff its normalised key is in
\* the index.
ClosedWindowIndex(t) ==
    {normalise_title(server[r].title) :
        r \in {x \in ReadSlots :
                  /\ t - WINDOW_HOURS * 3600 <= parse_ts(server[x].published_at)
                  /\ parse_ts(server[x].published_at) <= t
                  /\ normalise_title(server[x].title) # <<>>}}

C5_ClosedWindowNormalisedKey ==
    [][(script = "recent" /\ ~fetch_error') =>
          Range(marked') =
              {e \in UnreadSlots :
                  normalise_title(server[e].title) \in ClosedWindowIndex(now')}]_vars

\* C5 amended: the index holds the stripped title (not otherwise
\* normalised) of a read entry iff the entry was published at or after
\* t - window (an entry published after t is included too) and the stripped
\* title is not empty; an unread entry is flagged iff its stripped title is
\* in the index.
OpenWindowIndex(t) ==
    {Strip(server[r].title) :
        r \in {x \in ReadSlots :
                  /\ t - WINDOW_HOURS * 3600 <= parse_ts(server[x].published_at)
                  /\ Strip(server[x].title) # <<>>}}

C5_OpenWindowStrippedTitle ==
    [][(script = "recent" /\ ~fetch_error') =>
          Range(marked') =
              {e \in UnreadSlots : Strip(server[e].title) \in OpenWindowIndex(now')}]_vars

\* C5 witness: entries were flagged at time 90000 and every read entry that
\* can have flagged them was published exactly WINDOW_HOURS before.
C5_Witness ==
    /\ script = "recent"
    /\ Planned
    /\ now = 90000
    /\ marked # <<>>
    /\ \A r \in ReadSlots \ Range(marked) :
           Strip(server[r].title) # <<>> =>
               now - parse_ts(server[r].published_at) = WINDOW_HOURS * 3600

\* C6 as stated: an entry whose title is empty, or whose key is empty, joins
\* no group and is never marked.
C6_EmptyKeyNeverMarked ==
    \A e \in Range(marked) : server[e].title # <<>> /\ KeyOf(e) # <<>>

\* The duplicates find_cross_feed_duplicates finds in the batch at a
\* threshold.
DupesAt(t) == Range(FuzzyPlan(server, entries, t, ratio).list)

\* C7 as stated: the duplicates found at a higher threshold are among those
\* found by the run at its lower threshold.
C7_ThresholdMonotone ==
    (script = "fuzzy" /\ Planned) =>
        \A t1 \in Thresholds : t1 > SENSITIVITY => DupesAt(t1) \subseteq Range(marked)

\* C7 amended: an entry found at a higher threshold is, at the lower
\* threshold of the run, either marked itself or similar to an earlier
\* entry that is marked.
C7_MarkedOrAbsorbed ==
    (script = "fuzzy" /\ Planned) =>
        \A t1 \in Thresholds : t1 > SENSITIVITY =>
            \A e \in DupesAt(t1) :
                \/ e \in Range(marked)
                \/ \E k \in Range(marked) :
                       /\ PosIn(entries, k) < PosIn(entries, e)
                       /\ ratio[<<KeyOf(e), KeyOf(k)>>] >= SENSITIVITY

\* C7 witness: an entry found at the higher threshold was not marked by the
\* run at the lower one.
C7_Witness ==
    /\ script = "fuzzy"
    /\ Planned
    /\ \E t1 \in Thresholds : t1 > SENSITIVITY /\ ~(DupesAt(t1) \subseteq Range(marked))

\* C8 as stated: a failed update ends the run in failure, after one attempt.
C8_UpdateFailureReported ==
    update_error => (outcome = "failed" /\ update_calls = 1)

\* C9: with DRY_RUN set a run computes its list, never calls the update and
\* leaves every entry as it was.
C9_DryRunNeverUpdates ==
    [][DRY_RUN =>
          /\ server' = server
          /\ update_calls' = 0
          /\ ~fetch_error' => marked' = PlanOf(script, server, now', ratio).list]_vars

\* C9 witness: a dry run found entries to mark.
C9_Witness ==
    /\ DRY_RUN
    /\ Planned
    /\ marked # <<>>
    /\ update_calls = 0

\* An entry that lacks its id or its title.
Malformed(srv, e) == ~Has(srv, e, "id") \/ ~Has(srv, e, "title")

\* The server without its malformed entries.
WithoutMalformed(srv) ==
    [i \in Slots |-> IF Malformed(srv, i) THEN [srv[i] EXCEPT !.status = "absent"]
                     ELSE srv[i]]

\* C10 as stated: a run over a batch with a malformed entry does not abort
\* and marks what it would mark if that entry were absent.
C10_MalformedSkipped ==
    [][((\E d \in UnreadSlots : Malformed(server, d)) /\ ~fetch_error' /\ ~update_error') =>
          /\ outcome' = "completed"
          /\ marked' = PlanOf(script, WithoutMalformed(server), now', ratio).list]_vars

\* seen_titles when the loop reaches the entry e of the batch.
SeenBefore(e) ==
    FuzzyScan(server, entries, PosIn(entries, e) - 1, SENSITIVITY, ratio).seen

\* The match the loop computes for the entry e of the batch.
MatchOf(e) == match(SeenBefore(e), KeyOf(e), SENSITIVITY, ratio)

\* The entries of the batch that started a group: those not marked.
Representatives == Range(entries) \ Range(marked)

\* The representatives that come before e and are similar to it.
SimilarBefore(e) ==
    {r \in Representatives :
        /\ PosIn(entries, r) < PosIn(entries, e)
        /\ ratio[<<KeyOf(e), KeyOf(r)>>] >= SENSITIVITY}

\* C11: an entry is marked iff it is similar to an earlier representative,
\* and is then matched with the earliest such representative; the entries
\* kept in seen_titles are exactly the unmarked ones, in input order, so a
\* marked entry is never a representative and an entry similar to no
\* earlier representative becomes one.
C11_FirstMatchOverRepresentatives ==
    (script = "fuzzy" /\ Planned) =>
        /\ \A e \in Range(entries) : e \in Range(marked) <=> SimilarBefore(e) # {}
        /\ \A e \in Range(marked) :
               /\ MatchOf(e).id \in SimilarBefore(e)
               /\ MatchOf(e).cleaned = KeyOf(MatchOf(e).id)
               /\ \A r \in SimilarBefore(e) :
                      PosIn(entries, MatchOf(e).id) <= PosIn(entries, r)
        /\ \A e \in Representatives : MatchOf(e) = None
        /\ [i \in 1..Len(FuzzyScan(server, entries, Len(entries), SENSITIVITY, ratio).seen) |->
               FuzzyScan(server, entries, Len(entries), SENSITIVITY, ratio).seen[i].id]
             = SelectSeq(entries, LAMBDA e : e \in Representatives)

\* C11 witness: a marked entry is similar to two earlier representatives.
C11_Witness ==
    /\ script = "fuzzy"
    /\ Planned
    /\ \E e \in Range(marked) : Cardinality(SimilarBefore(e)) >= 2

====
